---------------------------- MODULE Spec2Model ----------------------------
(***************************************************************************)
(* Model of the API request/retry engine of resend-cli                     *)
(* (src/lib/api-client.ts: ResendAPIError, ResendClient.constructor,       *)
(* ResendClient.request, ResendClient.calculateBackoff,                    *)
(* ResendClient.parseRateLimitHeaders).                                    *)
(*                                                                         *)
(* One engine instance is constructed in Init from the caller's options;   *)
(* request() is an async function, so it is split at its suspension points *)
(* (await fetch, await sleep): each action runs the code from one          *)
(* suspension point to the next one, or to the return/throw.               *)
(*                                                                         *)
(* Environment: the server's answer to a fetch is an input.  A parseable   *)
(* error body is a JSON object, as the cast `as Record<string, unknown>`   *)
(* at api-client.ts:127 asserts; an unparseable body is modelled for both  *)
(* the error path and the success path.  maxRetries and timeout are        *)
(* integers.                                                               *)
(*                                                                         *)
(* Around the engine: credential resolution and the configuration file     *)
(* (src/lib/config.ts, commands/config: SpecConfig) and the handlers of    *)
(* emails cancel, emails send-batch and contacts import (SpecCommand),     *)
(* for which the engine's result is an input.  Each specification keeps    *)
(* the variables of the other parts at their idle values.                  *)
(***************************************************************************)
EXTENDS Integers, Sequences, FiniteSets, TLC

(***************************************************************************)
(* Bounds of the model                                                     *)
(***************************************************************************)
\* largest maxRetries option the caller passes
MaxRetriesOpt == 5
\* longest text of a rate-limit header
MaxHeaderLen == 2
\* number of request() calls made on the one engine
MaxCalls == 2
\* largest number of contacts in an imported CSV file
MaxRows == 2
\* longest key given to maskApiKey on its own
MaxKeyLen == 8
\* longest array given to validateEmails on its own
MaxEmails == 3
\* largest number of emails in the file given to send-batch
MaxBatch == 2

(***************************************************************************)
(* Program constants                                                       *)
(***************************************************************************)
DefaultMaxRetries == 3
DefaultTimeout == 30000
DefaultBaseUrl == "https://api.resend.com"
BackoffBase == 1000
BackoffCap == 4000
\* the JavaScript value `undefined` in a number-typed field
Undefined == -1
\* the JavaScript value NaN (no header text of the model has a sign, so
\* parseInt gives no negative number)
NaN == -2

(***************************************************************************)
(* Inputs                                                                  *)
(***************************************************************************)
\* an optional numeric option of ResendClientOptions: omitted, or a number
Omitted == [given |-> FALSE, value |-> 0]
Given(n) == [given |-> TRUE, value |-> n]

\* an optional string option: omitted, or a string
OmittedText == [given |-> FALSE, value |-> ""]
GivenText(text) == [given |-> TRUE, value |-> text]

ApiKeyOptions == {"re_test123"}
BaseUrlOptions == {OmittedText, GivenText("http://localhost:3000")}
MaxRetriesOptions == {Omitted} \cup {Given(n) : n \in -1..MaxRetriesOpt}
TimeoutOptions == {Omitted, Given(0), Given(5000)}

\* an engine method: the verb, endpoint and body it hands to request();
\* fetch uses GET when no verb is given, and "" stands for no body
Operation(method, verb, path, body) ==
    [method |-> method, verb |-> verb, path |-> path, body |-> body]
GetEmailOperation == Operation("getEmail", "GET", "/emails/:id", "")
Operations ==
    {GetEmailOperation,
     Operation("sendEmail", "POST", "/emails", "JSON.stringify(request)"),
     Operation("sendBatchEmails", "POST", "/emails/batch", "JSON.stringify(request)"),
     Operation("sendBroadcast", "POST", "/broadcasts/:id/send", "")}

SuccessStatuses == {200, 201}
ClientErrorStatuses == {400, 401, 403, 404, 429}
ServerErrorStatuses == {500, 503}

\* response bodies: json says whether response.json() resolves; for a JSON
\* object, hasMessage says whether its `message` field is a string, msg is
\* that string (it may be the empty string); id tells two JSON bodies apart
NotJson == [json |-> FALSE, hasMessage |-> FALSE, msg |-> "", id |-> 0]
JsonBody(hasMessage, msg, id) ==
    [json |-> TRUE, hasMessage |-> hasMessage, msg |-> msg, id |-> id]
ErrorBodies == {NotJson,
                JsonBody(TRUE, "server says no", 1),
                JsonBody(TRUE, "", 2),
                JsonBody(FALSE, "", 3)}
SuccessBodies == {NotJson, JsonBody(FALSE, "", 4), JsonBody(FALSE, "", 5)}
EmptyObject == JsonBody(FALSE, "", 0)
\* the JSON value null: response.json() resolves, but not to an object
JsonNull == JsonBody(FALSE, "", 9)
\* the error bodies a server of kind w sends: JSON objects and unparseable
\* text ("objects"), or JSON null as well ("any")
ErrorBodiesOf(w) == IF w = "any" THEN ErrorBodies \cup {JsonNull} ELSE ErrorBodies
NoBody == [json |-> FALSE, hasMessage |-> FALSE, msg |-> "", id |-> -1]

\* a response header: headers.get(name) gives null when it is absent and
\* its text otherwise; a text is a sequence of characters
AbsentHeader == [present |-> FALSE, text |-> <<>>]
Header(text) == [present |-> TRUE, text |-> text]
RateLimitHeaders(limit, remaining, reset) ==
    [limit |-> limit, remaining |-> remaining, reset |-> reset]
NoHeaders == RateLimitHeaders(AbsentHeader, AbsentHeader, AbsentHeader)
\* the header sets the server of the engine model answers with: none of
\* the three headers, all three (remaining = 0), or reset missing
EngineHeaders ==
    {NoHeaders,
     RateLimitHeaders(Header(<<"1", "0">>), Header(<<"0">>), Header(<<"1", "1">>)),
     RateLimitHeaders(Header(<<"1", "0">>), Header(<<"1">>), AbsentHeader)}

\* header texts for parseRateLimitHeaders alone: every text of at most
\* MaxHeaderLen characters over two digits and a letter
HeaderAlphabet == {"0", "1", "a"}
HeaderTexts == UNION {[1..k -> HeaderAlphabet] : k \in 0..MaxHeaderLen}
HeaderValues == {AbsentHeader} \cup {Header(text) : text \in HeaderTexts}

(***************************************************************************)
(* ResendAPIError and the other errors that leave request()                *)
(***************************************************************************)
\* message texts; n is the number interpolated into the template
StatusMessage(status) == [text |-> "API request failed with status", n |-> status]
TimeoutMessage(ms) == [text |-> "Request timeout after ms", n |-> ms]
GenericMessage == [text |-> "Request failed after maximum retries", n |-> Undefined]
BodyMessage(msg) == [text |-> msg, n |-> Undefined]
ForeignMessage == [text |-> "", n |-> Undefined]

\* details payloads
NoDetails == [kind |-> "undefined", body |-> NoBody, timeout |-> Undefined]
BodyDetails(errorData) == [kind |-> "body", body |-> errorData, timeout |-> Undefined]
TimeoutDetails(ms) == [kind |-> "timeout", body |-> NoBody, timeout |-> ms]

ResendAPIError(message, statusCode, details) ==
    [name |-> "ResendAPIError", message |-> message,
     statusCode |-> statusCode, details |-> details]

\* what fetch rejects with on a network failure, and what response.json()
\* rejects with on an unparseable body: plain errors, not ResendAPIError
NetworkError ==
    [name |-> "TypeError", message |-> ForeignMessage,
     statusCode |-> Undefined, details |-> NoDetails]
JsonSyntaxError ==
    [name |-> "SyntaxError", message |-> ForeignMessage,
     statusCode |-> Undefined, details |-> NoDetails]

\* what reading errorData.message throws when errorData is null (line 129)
NullPropertyError ==
    [name |-> "TypeError",
     message |-> [text |-> "null is not an object", n |-> Undefined],
     statusCode |-> Undefined, details |-> NoDetails]

Null == [name |-> "null", message |-> ForeignMessage,
         statusCode |-> Undefined, details |-> NoDetails]

(***************************************************************************)
(* Pure helpers                                                            *)
(***************************************************************************)
RECURSIVE Pow2(_)
Pow2(n) == IF n <= 0 THEN 1 ELSE 2 * Pow2(n - 1)

Min(a, b) == IF a <= b THEN a ELSE b

\* options.x || dflt : 0 and undefined are falsy
OrDefault(opt, dflt) ==
    IF opt.given /\ opt.value # 0 THEN opt.value ELSE dflt

\* options.x || dflt for a string: "" and undefined are falsy
OrDefaultText(opt, dflt) ==
    IF opt.given /\ opt.value # "" THEN opt.value ELSE dflt

\* mutant: the exponent is off by one (first delay 2000 ms)
calculateBackoff_OffByOne(attempt) ==
    Min(BackoffBase * Pow2(attempt + 1), BackoffCap)

\* line 181: Math.min(1000 * Math.pow(2, attempt), 4000)
calculateBackoff(attempt) == Min(BackoffBase * Pow2(attempt), BackoffCap)

\* response.json().catch(() => ({}))
errorDataOf(body) == IF body.json THEN body ELSE EmptyObject

\* (typeof errorData.message === 'string' ? errorData.message : undefined)
\*     || `API request failed with status ${response.status}`
errorMessageOf(errorData, status) ==
    IF errorData.hasMessage /\ errorData.msg # ""
    THEN BodyMessage(errorData.msg)
    ELSE StatusMessage(status)

\* the rateLimit part of a result
NoRateLimit ==
    [present |-> FALSE, limit |-> Undefined, remaining |-> Undefined,
     reset |-> Undefined]
RateLimitInfo(limit, remaining, reset) ==
    [present |-> TRUE, limit |-> limit, remaining |-> remaining, reset |-> reset]

Digits == {"0", "1", "2", "3", "4", "5", "6", "7", "8", "9"}
DigitValue(c) ==
    CASE c = "0" -> 0 [] c = "1" -> 1 [] c = "2" -> 2 [] c = "3" -> 3
      [] c = "4" -> 4 [] c = "5" -> 5 [] c = "6" -> 6 [] c = "7" -> 7
      [] c = "8" -> 8 [] c = "9" -> 9

\* parseInt(text, 10) for a text without whitespace or sign: the value of
\* the longest prefix of decimal digits, NaN when that prefix is empty
RECURSIVE parseDigits(_, _, _)
parseDigits(text, i, acc) ==
    IF i > Len(text) \/ text[i] \notin Digits
    THEN acc
    ELSE parseDigits(text, i + 1, 10 * acc + DigitValue(text[i]))
parseInt(text) ==
    IF text = <<>> \/ text[1] \notin Digits THEN NaN ELSE parseDigits(text, 1, 0)

\* truthiness of headers.get(name): null and the empty string are falsy
truthy(header) == header.present /\ header.text # <<>>

\* mutant: the snapshot is built as soon as limit and remaining are there
parseRateLimitHeaders_TwoOfThree(headers) ==
    IF truthy(headers.limit) /\ truthy(headers.remaining)
    THEN RateLimitInfo(parseInt(headers.limit.text),
                       parseInt(headers.remaining.text),
                       parseInt(headers.reset.text))
    ELSE NoRateLimit

\* lines 187-201
parseRateLimitHeaders(headers) ==
    IF truthy(headers.limit) /\ truthy(headers.remaining) /\ truthy(headers.reset)
    THEN RateLimitInfo(parseInt(headers.limit.text),
                       parseInt(headers.remaining.text),
                       parseInt(headers.reset.text))
    ELSE NoRateLimit

\* mutant: only 200 counts as success
responseOk_Only200(status) == status = 200

\* response.ok
responseOk(status) == status >= 200 /\ status <= 299

\* mutant: 429 is treated as retryable
shouldRetry_With429(status, a, budget) ==
    (status >= 500 \/ status = 429) /\ a < budget - 1

\* mutant: a 5xx is slept on even when it came on the last attempt
shouldRetry_NoBudget(status, a, budget) == status >= 500

\* line 133: response.status >= 500 && attempt < this.maxRetries - 1
shouldRetry(status, a, budget) == status >= 500 /\ a < budget - 1

(***************************************************************************)
(* Configuration: lib/config.ts                                            *)
(***************************************************************************)
\* a string that may be undefined (a flag, an environment variable, a field
\* of the configuration): same shape as a header value, so that truthy
\* applies to it
Unset == [present |-> FALSE, text |-> <<>>]
Str(text) == [present |-> TRUE, text |-> text]

\* the keys that are typed, exported or stored; one with a foreign prefix
\* and the empty string among them
KeyTexts ==
    {<<"r", "e", "_", "1">>, <<"r", "e", "_", "2">>, <<"s", "k", "_", "1">>, <<>>,
     <<"r", "e", "_", "1", "2", "3", "4", "5">>}
KeyValues == {Unset} \cup {Str(text) : text \in KeyTexts}
FromValues == {Unset, Str(<<"a", "@", "b">>)}

\* value.startsWith(prefix)
startsWith(text, prefix) ==
    /\ Len(text) >= Len(prefix)
    /\ SubSeq(text, 1, Len(prefix)) = prefix

KeyPrefix == <<"r", "e", "_">>

CONFIG_FILE_PATHS == <<".resend.json", "~/.resend.json", "~/.config/resend.json">>

\* expandPath over the paths the program uses: a leading ~ becomes the home
\* directory, any other path is left as it is
expandPath(path) ==
    CASE path = "~/.resend/config.json" -> "/home/user/.resend/config.json"
      [] path = "~/.resend.json" -> "/home/user/.resend.json"
      [] path = "~/.config/resend.json" -> "/home/user/.config/resend.json"
      [] OTHER -> path

getConfigPath == expandPath("~/.resend/config.json")

\* the files that getApiKey and the config commands touch
ConfigFiles == {expandPath(CONFIG_FILE_PATHS[1]), getConfigPath}

\* content of a file: missing, not JSON, or a JSON object with the fields
\* of Config that matter here
MissingFile ==
    [kind |-> "missing", apiKey |-> Unset, api_key |-> Unset, defaultFrom |-> Unset]
InvalidFile ==
    [kind |-> "invalid", apiKey |-> Unset, api_key |-> Unset, defaultFrom |-> Unset]
Config(key, from) ==
    [kind |-> "json", apiKey |-> key, api_key |-> Unset, defaultFrom |-> from]
EmptyConfig == Config(Unset, Unset)

\* getApiKey(override), with process.env.RESEND_API_KEY and the file system
\* as explicit arguments
getApiKey(override, env, fs) ==
    IF truthy(override) THEN override
    ELSE IF truthy(env) THEN env
    ELSE LET file == fs[expandPath(CONFIG_FILE_PATHS[1])]
         IN  IF file.kind = "json" THEN file.apiKey ELSE Unset

\* loadConfigSync(): the primary configuration file, {} when it is missing
\* or invalid
loadConfigSync(fs) ==
    IF fs[getConfigPath].kind = "json" THEN fs[getConfigPath] ELSE EmptyConfig

\* saveConfig(config): the file system afterwards
saveConfig(fs, cfg) == [fs EXCEPT ![getConfigPath] = cfg]

\* mutant: only keys of 7 characters or more are masked
maskApiKey_Threshold(key) ==
    IF Len(key) < 7 THEN key
    ELSE SubSeq(key, 1, 3) \o <<".", ".", ".">> \o SubSeq(key, Len(key) - 3, Len(key))

\* maskApiKey(apiKey): slice(0, 3) + '...' + slice(-4), or the key itself
\* when it has at most 7 characters
maskApiKey(key) ==
    IF Len(key) <= 7 THEN key
    ELSE SubSeq(key, 1, 3) \o <<".", ".", ".">> \o SubSeq(key, Len(key) - 3, Len(key))

(***************************************************************************)
(* Validation: lib/validators.ts                                           *)
(***************************************************************************)
\* character classes of EMAIL_REGEX
AlphaNumeric == {"a", "b", "c", "1"}
MaxAddressLength == 254
MaxLocalLength == 64
MaxDomainLength == 253

\* String.prototype.trim for texts whose only white space is the blank
RECURSIVE trimStart(_)
trimStart(text) ==
    IF text # <<>> /\ Head(text) = " " THEN trimStart(Tail(text)) ELSE text
RECURSIVE trimEnd(_)
trimEnd(text) ==
    IF text # <<>> /\ text[Len(text)] = " "
    THEN trimEnd(SubSeq(text, 1, Len(text) - 1))
    ELSE text
trim(text) == trimEnd(trimStart(text))

\* text.split(sep) for a separator of one character
RECURSIVE split(_, _)
split(text, sep) ==
    IF \A i \in 1..Len(text) : text[i] # sep
    THEN <<text>>
    ELSE LET first == CHOOSE i \in 1..Len(text) :
                          /\ text[i] = sep
                          /\ \A j \in 1..(i - 1) : text[j] # sep
         IN  <<SubSeq(text, 1, first - 1)>>
               \o split(SubSeq(text, first + 1, Len(text)), sep)

\* one label of the domain: [a-zA-Z0-9](?:[a-zA-Z0-9-]{0,61}[a-zA-Z0-9])?
matchesLabel(label) ==
    /\ Len(label) >= 1
    /\ Len(label) <= 1 + 61 + 1
    /\ label[1] \in AlphaNumeric
    /\ label[Len(label)] \in AlphaNumeric
    /\ \A i \in 1..Len(label) : label[i] \in AlphaNumeric \cup {"-"}

\* EMAIL_REGEX.test(text): a local part of allowed characters, one @, and
\* labels separated by dots
matchesEmailRegex(text) ==
    LET parts == split(text, "@")
        \* (the class of the local part also has the two quote characters)
        LocalChars ==
            AlphaNumeric \cup {".", "!", "#", "$", "%", "&", "*", "+", "/", "=",
                               "?", "^", "_", "{", "|", "}", "~", "-"}
    IN  /\ Len(parts) = 2
        /\ Len(parts[1]) >= 1
        /\ \A i \in 1..Len(parts[1]) : parts[1][i] \in LocalChars
        /\ LET labels == split(parts[2], ".")
           IN  \A k \in 1..Len(labels) : matchesLabel(labels[k])

\* validateEmail(email)
validateEmail(email) ==
    LET trimmed == trim(email)
        parts == split(trimmed, "@")
    IN  /\ email # <<>>
        /\ Len(trimmed) # 0
        /\ Len(trimmed) <= MaxAddressLength
        /\ \E i \in 1..Len(trimmed) : trimmed[i] = "@"
        /\ Len(parts) = 2
        /\ Len(parts[1]) # 0
        /\ Len(parts[1]) <= MaxLocalLength
        /\ Len(parts[2]) # 0
        /\ Len(parts[2]) <= MaxDomainLength
        /\ matchesEmailRegex(trimmed)

\* the loop of validateEmails from index i on, with the two lists so far
RECURSIVE validateEmailsFrom(_, _, _, _)
validateEmailsFrom(emails, i, valid, invalid) ==
    IF i > Len(emails)
    THEN [valid |-> valid, invalid |-> invalid, isValid |-> Len(invalid) = 0]
    ELSE IF validateEmail(emails[i])
         THEN validateEmailsFrom(emails, i + 1, Append(valid, trim(emails[i])), invalid)
         ELSE validateEmailsFrom(emails, i + 1, valid, Append(invalid, emails[i]))

\* mutant: valid addresses are kept as given, without trimming
validateEmails_Untrimmed(emails) ==
    LET result == validateEmailsFrom(emails, 1, <<>>, <<>>)
    IN  [result EXCEPT !.valid = SelectSeq(emails, validateEmail)]

\* validateEmails(emails)
validateEmails(emails) == validateEmailsFrom(emails, 1, <<>>, <<>>)

(***************************************************************************)
(* State                                                                   *)
(***************************************************************************)
VARIABLES
    options,     \* the ResendClientOptions the constructor was called with
    apiKey,      \* this.apiKey
    baseUrl,     \* this.baseUrl
    maxRetries,  \* this.maxRetries
    timeout,     \* this.timeout
    wire,        \* kind of server the engine talks to: "objects" or "any"
    operation,   \* the engine method the caller uses: its verb, path and body
    pc,          \* position of the current request() call
    attempt,     \* loop variable of the retry loop
    lastError,   \* local variable lastError
    outcome,     \* how the current call ended: returned value or thrown error
    calls,       \* number of request() calls started on this engine
    fetches,     \* history: HTTP attempts issued by the current call
    sent,        \* history: the requests these attempts handed to fetch
    received,    \* history: statuses of the responses the current call received
    lastBody,    \* history: body of the most recent of these responses
    lastHeaders, \* history: rate-limit headers of the most recent response
    lastEvent,   \* history: how the most recent HTTP attempt ended
    sleeps,      \* history: backoff delays slept by the current call
    log,         \* history: fetch starts/ends and sleep starts/ends, in order
    rlHeaders,   \* parseRateLimitHeaders alone: its argument
    rlSnapshot,  \* parseRateLimitHeaders alone: its result
    rlParsed,    \* parseRateLimitHeaders alone: whether it has been applied
    fileSystem,  \* configuration: content of each configuration file
    invocation,  \* configuration: the most recent command run and its result
    savedKey,    \* history: the apiKey that the config commands saved last
    printed,     \* configuration: what the last `config get` printed
    pureFn,      \* a pure function alone: which one has been applied
    pureArg,     \* a pure function alone: its argument
    pureResult,  \* a pure function alone: its result
    cmd,         \* commands: the invocation, its inputs, position and counters
    stdout,      \* commands: what the invocation wrote to standard output
    stderr,      \* commands: what the invocation wrote to standard error
    exitCode     \* commands: exit code of the process once it has ended

engineVars == <<options, apiKey, baseUrl, maxRetries, timeout, wire, operation,
                pc, attempt, lastError, outcome, calls, fetches, sent, received,
                lastBody, lastHeaders, lastEvent, sleeps, log>>
rateVars == <<rlHeaders, rlSnapshot, rlParsed>>

configVars == <<fileSystem, invocation, savedKey, printed>>
pureVars == <<pureFn, pureArg, pureResult>>

commandVars == <<cmd, stdout, stderr, exitCode>>

vars == <<engineVars, rateVars, configVars, commandVars, pureVars>>

\* everything that is not state of the engine
outside == <<rateVars, configVars, commandVars, pureVars>>

config == <<options, apiKey, baseUrl, maxRetries, timeout>>

NoOutcome ==
    [kind |-> "none", data |-> NoBody, rateLimit |-> NoRateLimit, error |-> Null]
Returned(data, rateLimit) ==
    [kind |-> "returned", data |-> data, rateLimit |-> rateLimit, error |-> Null]
Thrown(error) ==
    [kind |-> "thrown", data |-> NoBody, rateLimit |-> NoRateLimit, error |-> error]

(***************************************************************************)
(* constructor                                                             *)
(***************************************************************************)
EngineInit ==
    /\ options \in [apiKey : ApiKeyOptions, baseUrl : BaseUrlOptions,
                     maxRetries : MaxRetriesOptions, timeout : TimeoutOptions]
    /\ apiKey = options.apiKey
    /\ baseUrl = OrDefaultText(options.baseUrl, DefaultBaseUrl)
    /\ maxRetries = OrDefault(options.maxRetries, DefaultMaxRetries)
    /\ timeout = OrDefault(options.timeout, DefaultTimeout)
    /\ pc = "idle"
    /\ attempt = 0
    /\ lastError = Null
    /\ outcome = NoOutcome
    /\ calls = 0
    /\ fetches = 0
    /\ sent = <<>>
    /\ received = <<>>
    /\ lastBody = NoBody
    /\ lastHeaders = NoHeaders
    /\ lastEvent = "none"
    /\ sleeps = <<>>
    /\ log = <<>>

\* no configuration command has run and no configuration file exists
NoInvocation ==
    [command |-> "none", flag |-> Unset, env |-> Unset, key |-> "",
     value |-> Unset, resolved |-> Unset, exitCode |-> 0]
Invocation(command, flag, env, key, value, resolved, code) ==
    [command |-> command, flag |-> flag, env |-> env, key |-> key,
     value |-> value, resolved |-> resolved, exitCode |-> code]

\* what `config get` prints of each field; nothing at first
NothingPrinted == [apiKey |-> Unset, api_key |-> Unset, defaultFrom |-> Unset]

ConfigIdle ==
    /\ fileSystem = [path \in ConfigFiles |-> MissingFile]
    /\ invocation = NoInvocation
    /\ savedKey = Unset
    /\ printed = NothingPrinted

\* no pure function is being exercised on its own
PureIdle ==
    /\ pureFn = "none"
    /\ pureArg = <<>>
    /\ pureResult = <<>>

\* no command has been invoked
NoCommand ==
    [name |-> "none", apiKey |-> Unset, pc |-> "idle", output |-> "pretty",
     failure |-> "none", rows |-> 0, i |-> 0, successCount |-> 0, errorCount |-> 0,
     force |-> FALSE, prompted |-> FALSE, answer |-> "", confirmed |-> FALSE,
     clients |-> 0, calls |-> <<>>, input |-> <<>>]

CommandIdle ==
    /\ cmd = NoCommand
    /\ stdout = <<>>
    /\ stderr = <<>>
    /\ exitCode = 0

\* parseRateLimitHeaders is not being exercised on its own
RateIdle ==
    /\ rlHeaders = NoHeaders
    /\ rlSnapshot = NoRateLimit
    /\ rlParsed = FALSE

\* an engine constructed with default options on which no call is made
EngineIdle ==
    /\ EngineInit
    /\ options = [apiKey |-> "re_test123", baseUrl |-> OmittedText,
                  maxRetries |-> Omitted, timeout |-> Omitted]
    /\ wire = "objects"
    /\ operation = GetEmailOperation

Init ==
    /\ EngineInit
    /\ wire = "objects"
    /\ operation = GetEmailOperation
    /\ RateIdle
    /\ ConfigIdle
    /\ CommandIdle
    /\ PureIdle

(***************************************************************************)
(* request()                                                               *)
(***************************************************************************)
\* mutant: only the first attempt carries the body
FetchRequest_BodyOnce(a) ==
    [url |-> <<baseUrl, operation.path>>, verb |-> operation.verb,
     body |-> IF a = 0 THEN operation.body ELSE ""]

\* what fetch is called with in the loop turn of index a (lines 100 and
\* 109-110): the URL, and the verb and body of the options that the engine
\* method passed
FetchRequest(a) ==
    [url |-> <<baseUrl, operation.path>>, verb |-> operation.verb,
     body |-> operation.body]

\* the loop test `attempt < this.maxRetries` for loop index a, and what
\* follows it: the next fetch is issued, or the loop is left and line 173
\* throws lastError || the generic error
LoopHead(a, le, issued) ==
    IF a < maxRetries
    THEN /\ pc' = "attempting"
         /\ fetches' = issued + 1
         /\ sent' = Append(IF issued = 0 THEN <<>> ELSE sent, FetchRequest(a))
         /\ outcome' = NoOutcome
         /\ log' = Append(IF a = 0 THEN <<>> ELSE Append(log, "wake"), "fetch")
    ELSE /\ pc' = "done"
         /\ fetches' = issued
         /\ sent' = IF issued = 0 THEN <<>> ELSE sent
         /\ log' = IF a = 0 THEN <<>> ELSE Append(log, "wake")
         /\ outcome' = Thrown(IF le # Null THEN le
                               ELSE ResendAPIError(GenericMessage, Undefined, NoDetails))

\* mutant: the loop index survives from the previous call
Request_KeepsAttempt ==
    /\ pc \in {"idle", "done"}
    /\ calls < MaxCalls
    /\ calls' = calls + 1
    /\ attempt' = attempt
    /\ lastError' = Null
    /\ received' = <<>>
    /\ lastBody' = NoBody
    /\ lastHeaders' = NoHeaders
    /\ lastEvent' = "none"
    /\ sleeps' = <<>>
    /\ LoopHead(attempt, Null, 0)
    /\ UNCHANGED <<config, wire, operation, outside>>

\* a call of request(): lines 100-104, up to the first await fetch
Request ==
    /\ pc \in {"idle", "done"}
    /\ calls < MaxCalls
    /\ calls' = calls + 1
    /\ attempt' = 0
    /\ lastError' = Null
    /\ received' = <<>>
    /\ lastBody' = NoBody
    /\ lastHeaders' = NoHeaders
    /\ lastEvent' = "none"
    /\ sleeps' = <<>>
    /\ LoopHead(0, Null, 0)
    /\ UNCHANGED <<config, wire, operation, outside>>

\* await sleep(this.calculateBackoff(attempt)); continue  (lines 135-137
\* and 161-163): the attempt is over and the backoff sleep begins
Backoff ==
    /\ pc' = "sleeping"
    /\ sleeps' = Append(sleeps, calculateBackoff(attempt))
    /\ outcome' = NoOutcome
    /\ log' = log \o <<"end", "sleep">>

\* mutant: whatever ends the call, the snapshot of the last response's
\* headers is attached to the outcome
Finish_AttachesRateLimit(result) ==
    /\ pc' = "done"
    /\ sleeps' = sleeps
    /\ outcome' = [result EXCEPT !.rateLimit = parseRateLimitHeaders(lastHeaders')]
    /\ log' = Append(log, "end")

\* the call ends with a return or a throw: the attempt is over
Finish(result) ==
    /\ pc' = "done"
    /\ sleeps' = sleeps
    /\ outcome' = result
    /\ log' = Append(log, "end")

\* mutant: on the final attempt the error captured on an earlier attempt is
\* thrown instead of the current one
CatchBlock_Stale(error) ==
    /\ lastError' = lastError
    /\ Finish(Thrown(IF lastError # Null THEN lastError ELSE error))

\* the catch block (lines 147-169) for an error that is not an AbortError:
\* a ResendAPIError with a truthy statusCode >= 500 is recorded and, with
\* budget left, slept on and retried; every other error is re-thrown
CatchBlock(error) ==
    IF /\ error.name = "ResendAPIError"
       /\ error.statusCode # Undefined /\ error.statusCode # 0
       /\ error.statusCode >= 500
    THEN /\ lastError' = error
         /\ IF attempt < maxRetries - 1
            THEN Backoff
            ELSE Finish(Thrown(error))
    ELSE /\ lastError' = lastError
         /\ Finish(Thrown(error))

\* fetch resolves with a response (lines 120-146, then the catch block for
\* whatever the try block throws)
FetchResponds(status, body, headers) ==
    /\ pc = "attempting"
    /\ received' = Append(received, status)
    /\ lastBody' = body
    /\ lastHeaders' = headers
    /\ lastEvent' = "response"
    /\ LET rateLimit == parseRateLimitHeaders(headers)
       IN  IF responseOk(status)
           THEN IF body.json
                THEN /\ Finish(Returned(body, rateLimit))
                     /\ UNCHANGED lastError
                ELSE CatchBlock(JsonSyntaxError)
           ELSE IF body = JsonNull
                THEN CatchBlock(NullPropertyError)
                ELSE LET errorData == errorDataOf(body)
                         errorMessage == errorMessageOf(errorData, status)
                         error == ResendAPIError(errorMessage, status,
                                                 BodyDetails(errorData))
                     IN  IF shouldRetry(status, attempt, maxRetries)
                         THEN /\ lastError' = error
                              /\ Backoff
                         ELSE CatchBlock(error)
    /\ UNCHANGED <<config, wire, operation, attempt, calls, fetches, sent, outside>>

\* fetch rejects before any response arrived (connection refused, DNS, TLS)
FetchFails ==
    /\ pc = "attempting"
    /\ lastEvent' = "network"
    /\ CatchBlock(NetworkError)
    /\ UNCHANGED <<config, wire, operation, attempt, calls, fetches, sent, received, lastBody,
                   lastHeaders, outside>>

\* the timer of line 107 fires while fetch is pending: controller.abort()
\* makes fetch reject with an AbortError, which lines 149-155 turn into a
\* ResendAPIError thrown out of the catch block
FetchTimesOut ==
    /\ pc = "attempting"
    /\ lastEvent' = "timeout"
    /\ Finish(Thrown(ResendAPIError(TimeoutMessage(timeout), 0,
                                    TimeoutDetails(timeout))))
    /\ UNCHANGED <<config, wire, operation, attempt, lastError, calls, fetches, sent, received,
                   lastBody, lastHeaders, outside>>

\* mutant: the loop index is advanced twice per retry
SleepEnds_SkipsAttempt ==
    /\ pc = "sleeping"
    /\ attempt' = attempt + 2
    /\ LoopHead(attempt + 2, lastError, fetches)
    /\ UNCHANGED <<config, wire, operation, lastError, calls, received, lastBody,
                   lastHeaders, lastEvent, sleeps, outside>>

\* the backoff sleep ends: continue, attempt++, loop test
SleepEnds ==
    /\ pc = "sleeping"
    /\ attempt' = attempt + 1
    /\ LoopHead(attempt + 1, lastError, fetches)
    /\ UNCHANGED <<config, wire, operation, lastError, calls, received, lastBody,
                   lastHeaders, lastEvent, sleeps, outside>>

Next ==
    \/ Request
    \/ \E status \in SuccessStatuses, body \in SuccessBodies,
          headers \in EngineHeaders :
          FetchResponds(status, body, headers)
    \/ \E status \in ClientErrorStatuses \cup ServerErrorStatuses,
          body \in ErrorBodiesOf(wire), headers \in EngineHeaders :
          FetchResponds(status, body, headers)
    \/ FetchFails
    \/ FetchTimesOut
    \/ SleepEnds

Spec == Init /\ [][Next]_vars

\* every HTTP attempt eventually completes (response, network failure or
\* the timeout timer) and every backoff sleep eventually ends (setTimeout)
FetchCompletes ==
    \/ \E status \in SuccessStatuses, body \in SuccessBodies,
          headers \in EngineHeaders :
          FetchResponds(status, body, headers)
    \/ \E status \in ClientErrorStatuses \cup ServerErrorStatuses,
          body \in ErrorBodiesOf(wire), headers \in EngineHeaders :
          FetchResponds(status, body, headers)
    \/ FetchFails
    \/ FetchTimesOut

SpecLive ==
    Init /\ [][Next]_vars /\ WF_vars(FetchCompletes) /\ WF_vars(SleepEnds)

\* the same engine used through any of its methods, the POST methods among
\* them, against a server that sends no rate-limit headers
InitVerbs ==
    /\ EngineInit
    /\ wire = "objects"
    /\ operation \in Operations
    /\ RateIdle
    /\ ConfigIdle
    /\ CommandIdle
    /\ PureIdle

NextVerbs ==
    \/ Request
    \/ \E status \in SuccessStatuses, body \in SuccessBodies :
          FetchResponds(status, body, NoHeaders)
    \/ \E status \in ClientErrorStatuses \cup ServerErrorStatuses,
          body \in ErrorBodiesOf(wire) :
          FetchResponds(status, body, NoHeaders)
    \/ FetchFails
    \/ FetchTimesOut
    \/ SleepEnds

SpecVerbs == InitVerbs /\ [][NextVerbs]_vars

\* the same engine against a server that may also send the JSON value null
\* as the body of an error response
InitAnyBody ==
    /\ EngineInit
    /\ wire = "any"
    /\ operation = GetEmailOperation
    /\ RateIdle
    /\ ConfigIdle
    /\ CommandIdle
    /\ PureIdle

SpecAnyBody == InitAnyBody /\ [][Next]_vars

(***************************************************************************)
(* parseRateLimitHeaders on its own, over every header triple              *)
(***************************************************************************)
RateInit ==
    /\ rlHeaders \in [limit : HeaderValues, remaining : HeaderValues,
                       reset : HeaderValues]
    /\ rlSnapshot = NoRateLimit
    /\ rlParsed = FALSE
    /\ EngineIdle
    /\ ConfigIdle
    /\ CommandIdle
    /\ PureIdle

ParseRateLimit ==
    /\ ~rlParsed
    /\ rlParsed' = TRUE
    /\ rlSnapshot' = parseRateLimitHeaders(rlHeaders)
    /\ UNCHANGED <<rlHeaders, engineVars, configVars, commandVars, pureVars>>

NextRate == ParseRateLimit

SpecRateLimit == RateInit /\ [][NextRate]_vars

(***************************************************************************)
(* Configuration commands (commands/config) and credential resolution      *)
(***************************************************************************)
\* someone may have put a .resend.json into the working directory; the
\* primary configuration file does not exist yet
ConfigInit ==
    /\ fileSystem \in
         {[path \in ConfigFiles |->
              IF path = getConfigPath THEN MissingFile ELSE local] :
            local \in {MissingFile, InvalidFile, EmptyConfig,
                       Config(Str(<<"r", "e", "_", "2">>), Unset)}}
    /\ invocation = NoInvocation
    /\ savedKey = Unset
    /\ printed = NothingPrinted
    /\ EngineIdle
    /\ RateIdle
    /\ CommandIdle
    /\ PureIdle

\* `resend config init`: the answers to the two prompts are the inputs
initConfig(answer, from) ==
    /\ IF answer = <<>> \/ ~startsWith(answer, KeyPrefix)
       THEN /\ invocation' = Invocation("config init", Unset, Unset, "apiKey",
                                        Str(answer), Unset, 1)
            /\ UNCHANGED <<fileSystem, savedKey>>
       ELSE /\ fileSystem' =
                 saveConfig(fileSystem,
                            Config(Str(answer), IF truthy(from) THEN from ELSE Unset))
            /\ savedKey' = Str(answer)
            /\ invocation' = Invocation("config init", Unset, Unset, "apiKey",
                                        Str(answer), Unset, 0)
    /\ printed' = NothingPrinted
    /\ UNCHANGED <<engineVars, rateVars, commandVars, pureVars>>

\* `resend config set <key> <value>`
setConfig(key, value) ==
    /\ IF key = "apiKey" /\ ~startsWith(value, KeyPrefix)
       THEN /\ invocation' = Invocation("config set", Unset, Unset, key,
                                        Str(value), Unset, 1)
            /\ UNCHANGED <<fileSystem, savedKey>>
       ELSE /\ fileSystem' =
                 saveConfig(fileSystem,
                            [loadConfigSync(fileSystem) EXCEPT ![key] = Str(value)])
            /\ savedKey' = IF key = "apiKey" THEN Str(value) ELSE savedKey
            /\ invocation' = Invocation("config set", Unset, Unset, key,
                                        Str(value), Unset, 0)
    /\ printed' = NothingPrinted
    /\ UNCHANGED <<engineVars, rateVars, commandVars, pureVars>>

\* `resend config delete <key>`
deleteConfig(key) ==
    /\ IF ~loadConfigSync(fileSystem)[key].present
       THEN /\ invocation' = Invocation("config delete", Unset, Unset, key,
                                        Unset, Unset, 1)
            /\ UNCHANGED <<fileSystem, savedKey>>
       ELSE /\ fileSystem' =
                 saveConfig(fileSystem,
                            [loadConfigSync(fileSystem) EXCEPT ![key] = Unset])
            /\ savedKey' = IF key = "apiKey" THEN Unset ELSE savedKey
            /\ invocation' = Invocation("config delete", Unset, Unset, key,
                                        Unset, Unset, 0)
    /\ printed' = NothingPrinted
    /\ UNCHANGED <<engineVars, rateVars, commandVars, pureVars>>

\* any command that talks to the API: it starts with
\* getApiKey(globalOpts.apiKey) and exits with 1 when that gives nothing
ResolveCredential(flag, env) ==
    /\ invocation' =
         LET resolved == getApiKey(flag, env, fileSystem)
         IN  Invocation("api", flag, env, "", Unset, resolved,
                        IF truthy(resolved) THEN 0 ELSE 1)
    /\ printed' = NothingPrinted
    /\ UNCHANGED <<fileSystem, savedKey, engineVars, rateVars, commandVars, pureVars>>

\* `resend config get [key]`; key is "" when the argument is left out
getConfig(key) ==
    /\ LET cfg == loadConfigSync(fileSystem)
           displayConfig ==
               [apiKey |-> IF truthy(cfg.apiKey)
                           THEN Str(maskApiKey(cfg.apiKey.text)) ELSE cfg.apiKey,
                api_key |-> cfg.api_key,
                defaultFrom |-> cfg.defaultFrom]
       IN  IF displayConfig = NothingPrinted
           THEN /\ printed' = NothingPrinted
                /\ invocation' = Invocation("config get", Unset, Unset, key,
                                            Unset, Unset, 0)
           ELSE IF key # ""
                THEN IF ~cfg[key].present
                     THEN /\ printed' = NothingPrinted
                          /\ invocation' = Invocation("config get", Unset, Unset,
                                                      key, Unset, Unset, 1)
                     ELSE /\ printed' =
                               [NothingPrinted EXCEPT
                                  ![key] = IF key = "apiKey"
                                           THEN Str(maskApiKey(cfg[key].text))
                                           ELSE cfg[key]]
                          /\ invocation' = Invocation("config get", Unset, Unset,
                                                      key, Unset, Unset, 0)
                ELSE /\ printed' = displayConfig
                     /\ invocation' = Invocation("config get", Unset, Unset, key,
                                                 Unset, Unset, 0)
    /\ UNCHANGED <<fileSystem, savedKey, engineVars, rateVars, commandVars, pureVars>>

\* the key names of the documentation: apiKey (Config), api_key (README)
ConfigKeys == {"apiKey", "api_key", "defaultFrom"}

NextConfig ==
    \/ \E answer \in KeyTexts, from \in FromValues : initConfig(answer, from)
    \/ \E key \in ConfigKeys :
          \E value \in IF key = "defaultFrom"
                        THEN {from.text : from \in FromValues \ {Unset}}
                        ELSE KeyTexts :
             setConfig(key, value)
    \/ \E key \in ConfigKeys : deleteConfig(key)
    \/ \E key \in ConfigKeys \cup {""} : getConfig(key)
    \/ \E flag \in KeyValues, env \in KeyValues : ResolveCredential(flag, env)

SpecConfig == ConfigInit /\ [][NextConfig]_vars

(***************************************************************************)
(* Command handlers: emails cancel, emails send-batch, contacts import      *)
(* The engine is a collaborator here: what its method returns or throws is  *)
(* an input.                                                                *)
(***************************************************************************)
OutputFormats == {"json", "pretty"}

\* state of the file given to send-batch, in the order the handler tests it
\* the value of an address field of an email of the file: the field is
\* not there, or holds one string, or an array of strings
Absent == [kind |-> "absent", items |-> <<>>]
One(address) == [kind |-> "string", items |-> <<address>>]
Many(addresses) == [kind |-> "array", items |-> addresses]

\* the field as a condition (if (email.to)): an array is truthy even when
\* empty, a string when it is not empty
given(value) ==
    \/ value.kind = "array"
    \/ value.kind = "string" /\ value.items[1] # <<>>

\* Array.isArray(value) ? value : [value]
asArray(value) == value.items

\* the file given to send-batch: not there, not JSON, JSON that is not an
\* array, or an array of emails. The emails: two that pass, one with an
\* empty list of recipients, and one for each check of the handler
BatchFiles ==
    LET GoodAddress == <<"a", "@", "b">>
        BadAddress == <<"a">>
        GoodEmail ==
            [from |-> Str(GoodAddress),
             to |-> One(<<" ", "a", "@", "b", ".", "c", " ">>),
             subject |-> Str(<<"s">>), text |-> Str(<<"t">>), html |-> Unset,
             cc |-> Absent, bcc |-> Absent, reply_to |-> Absent]
        BatchEmails ==
            {GoodEmail,
             [GoodEmail EXCEPT !.to = Many(<<GoodAddress, GoodAddress>>),
                               !.text = Unset, !.html = Str(<<"h">>),
                               !.cc = Many(<<GoodAddress>>),
                               !.bcc = One(GoodAddress),
                               !.reply_to = One(GoodAddress)],
             [GoodEmail EXCEPT !.to = Many(<<>>)],
             [GoodEmail EXCEPT !.from = Unset],
             [GoodEmail EXCEPT !.from = Str(BadAddress)],
             [GoodEmail EXCEPT !.to = Absent],
             [GoodEmail EXCEPT !.to = Many(<<GoodAddress, BadAddress>>)],
             [GoodEmail EXCEPT !.subject = Str(<<>>)],
             [GoodEmail EXCEPT !.text = Unset],
             [GoodEmail EXCEPT !.cc = One(BadAddress)],
             [GoodEmail EXCEPT !.bcc = Many(<<BadAddress>>)],
             [GoodEmail EXCEPT !.reply_to = One(BadAddress)]}
    IN  {[kind |-> kind, emails |-> <<>>] :
            kind \in {"missing", "invalid json", "not an array"}}
          \cup {[kind |-> "array", emails |-> emails] :
                  emails \in UNION {[1..k -> BatchEmails] : k \in 0..MaxBatch}}

\* the messages the handler collects for one email (lines 64-108)
emailErrors(email) ==
    (IF ~truthy(email.from) \/ ~validateEmail(email.from.text)
     THEN <<"Invalid sender email">> ELSE <<>>)
    \o (IF ~given(email.to) THEN <<"Missing recipient">>
        ELSE IF Len(validateEmails(asArray(email.to)).invalid) > 0
             THEN <<"Invalid recipient(s)">> ELSE <<>>)
    \o (IF ~truthy(email.subject) THEN <<"Missing subject">> ELSE <<>>)
    \o (IF ~truthy(email.text) /\ ~truthy(email.html)
        THEN <<"Must have either text or html content">> ELSE <<>>)
    \o (IF given(email.cc) /\ Len(validateEmails(asArray(email.cc)).invalid) > 0
        THEN <<"Invalid CC email(s)">> ELSE <<>>)
    \o (IF given(email.bcc) /\ Len(validateEmails(asArray(email.bcc)).invalid) > 0
        THEN <<"Invalid BCC email(s)">> ELSE <<>>)
    \o (IF given(email.reply_to)
           /\ Len(validateEmails(asArray(email.reply_to)).invalid) > 0
        THEN <<"Invalid reply-to email(s)">> ELSE <<>>)

\* emails.forEach of lines 63-109 from index i on, with the messages so far
RECURSIVE validationErrorsFrom(_, _, _)
validationErrorsFrom(emails, i, errors) ==
    IF i > Len(emails)
    THEN errors
    ELSE validationErrorsFrom(emails, i + 1, errors \o emailErrors(emails[i]))

\* mutant: only the first email of the file is validated
validationErrors_FirstOnly(emails) ==
    IF emails = <<>> THEN <<>> ELSE emailErrors(emails[1])

\* validationErrors once the forEach has ended
validationErrors(emails) == validationErrorsFrom(emails, 1, <<>>)

\* errors an engine method throws: typed errors with and without status,
\* and a plain error
EngineErrors ==
    {ResendAPIError(StatusMessage(404), 404, NoDetails),
     ResendAPIError(StatusMessage(400), 400, NoDetails),
     ResendAPIError(StatusMessage(500), 500, NoDetails),
     ResendAPIError(TimeoutMessage(DefaultTimeout), 0, TimeoutDetails(DefaultTimeout)),
     NetworkError}

\* the lines the catch block of a handler writes to standard error; hints
\* is TRUE for emails cancel, which explains 404 and 400
ErrorLines(error, hints) ==
    IF error.name = "ResendAPIError"
    THEN <<"API Error">> \o
         (IF hints /\ error.statusCode = 404 THEN <<"Email not found or not scheduled">>
          ELSE IF hints /\ error.statusCode = 400 THEN <<"Cannot cancel email">>
          ELSE IF error.statusCode # 0 /\ error.statusCode # Undefined
               THEN <<"Status">>
               ELSE <<>>)
    ELSE <<"Error">>

\* a handler starts in a fresh process; key is what getApiKey resolved and
\* what the engine is constructed with
Started(name, key, output, rows) ==
    [name |-> name, apiKey |-> key, pc |-> "calling", output |-> output,
     failure |-> "none", rows |-> rows, i |-> 0, successCount |-> 0, errorCount |-> 0,
     force |-> FALSE, prompted |-> FALSE, answer |-> "", confirmed |-> FALSE,
     clients |-> 0, calls |-> <<>>, input |-> <<>>]

\* the invocation after the confirmation prompt: it is shown, and the
\* answer read, unless --force is given
Asked(command, answer, confirmed) ==
    [command EXCEPT !.prompted = ~command.force,
                    !.answer = IF command.force THEN "" ELSE answer,
                    !.confirmed = ~command.force /\ confirmed]

\* a call of an engine method: for contacts import the row it is made for,
\* for send-batch the emails it carries
EngineCall(method, row, body) == [method |-> method, row |-> row, body |-> body]

\* the process ends: process.exit(code), or the handler returns (code 0)
Exit(command, failure, out, err, code) ==
    /\ cmd' = [command EXCEPT !.pc = "exited", !.failure = failure]
    /\ stdout' = out
    /\ stderr' = err
    /\ exitCode' = code

\* console.error of a message followed by process.exit(1)
Fail(command, failure, message) ==
    Exit(command, failure, <<>>, <<message>>, 1)

\* mutant: every engine call is made on a new engine instance
Issue_NewClient(command, call) ==
    [command EXCEPT !.pc = "calling", !.clients = @ + 1, !.calls = Append(@, call)]

\* the invocation once it has called one more engine method; the engine
\* instance is constructed once, before the first call
Issue(command, call) ==
    [command EXCEPT !.pc = "calling", !.clients = 1, !.calls = Append(@, call)]

\* the handler calls an engine method and awaits it
Call(command, call) ==
    /\ cmd' = Issue(command, call)
    /\ stdout' = IF command.calls = <<>> THEN <<>> ELSE stdout
    /\ stderr' = IF command.calls = <<>> THEN <<>> ELSE stderr
    /\ exitCode' = 0

\* answers typed at a confirmation prompt, and answer.toLowerCase()
Answers == {"y", "Y", "yes", "YES", "n", ""}
toLowerCase(answer) ==
    CASE answer = "Y" -> "y"
      [] answer = "YES" -> "yes"
      [] OTHER -> answer

\* the prompt of emails cancel, contacts delete, audiences delete and
\* domains delete accepts y and yes
promptConfirmation(answer) == toLowerCase(answer) \in {"y", "yes"}

\* `resend emails cancel <id>` up to the call of client.cancelEmail
RunCancel(key, force, answer, output) ==
    /\ cmd.pc = "idle"
    /\ LET started == Started("cancel", key, output, 0)
           confirmed == promptConfirmation(answer)
           command == Asked([started EXCEPT !.force = force], answer, confirmed)
       IN  IF ~truthy(key)
           THEN Fail(started, "credential", "No API key configured")
           ELSE IF ~force /\ ~confirmed
                THEN Exit(command, "none", <<"Cancellation aborted">>, <<>>, 0)
                ELSE Call(command, EngineCall("cancelEmail", 0, <<>>))
    /\ UNCHANGED <<engineVars, rateVars, configVars, pureVars>>

\* client.cancelEmail returned: the result is printed
CancelReturns(canceled) ==
    /\ cmd.pc = "calling"
    /\ cmd.name = "cancel"
    /\ LET failure == IF canceled THEN "none" ELSE "api result"
       IN  IF cmd.output = "json"
           THEN Exit(cmd, failure, <<"data">>, <<>>, 0)
           ELSE IF canceled
                THEN Exit(cmd, failure, <<"canceled successfully", "ID">>, <<>>, 0)
                ELSE Exit(cmd, failure, <<>>, <<"Failed to cancel email">>, 0)
    /\ UNCHANGED <<engineVars, rateVars, configVars, pureVars>>

\* `resend emails send-batch <json-file>` up to client.sendBatchEmails
RunSendBatch(key, file, output) ==
    /\ cmd.pc = "idle"
    /\ LET command == Started("send-batch", key, output, 0)
           parsed == [command EXCEPT !.input = file.emails]
           errors == validationErrors(file.emails)
       IN  CASE ~truthy(key) -> Fail(command, "credential", "No API key configured")
             [] truthy(key) /\ file.kind = "missing" ->
                  Fail(command, "validation", "JSON file not found")
             [] truthy(key) /\ file.kind = "invalid json" ->
                  Exit(command, "validation", <<>>,
                       <<"Invalid JSON format", "parse error">>, 1)
             [] truthy(key) /\ file.kind = "not an array" ->
                  Fail(command, "validation", "JSON file must contain an array")
             [] truthy(key) /\ file.kind = "array" /\ file.emails = <<>> ->
                  Fail(parsed, "validation", "No emails found in JSON file")
             [] truthy(key) /\ file.kind = "array" /\ file.emails # <<>>
                  /\ errors # <<>> ->
                  Exit(parsed, "validation", <<>>,
                       <<"Validation errors:">> \o errors, 1)
             [] truthy(key) /\ file.kind = "array" /\ file.emails # <<>>
                  /\ errors = <<>> ->
                  Call(parsed, EngineCall("sendBatchEmails", 0, file.emails))
    /\ UNCHANGED <<engineVars, rateVars, configVars, pureVars>>

\* client.sendBatchEmails returned
SendBatchReturns ==
    /\ cmd.pc = "calling"
    /\ cmd.name = "send-batch"
    /\ IF cmd.output = "json"
       THEN Exit(cmd, "none", <<"data">>, <<>>, 0)
       ELSE Exit(cmd, "none", <<"sent successfully", "Email 1">>, <<>>, 0)
    /\ UNCHANGED <<engineVars, rateVars, configVars, pureVars>>

\* the awaited engine method threw: the catch block of the handler (every
\* handler but contacts import, which catches inside its loop)
EngineThrows(error) ==
    /\ cmd.pc = "calling"
    /\ cmd.name # "import"
    /\ Exit(cmd, "engine", <<>>, ErrorLines(error, cmd.name = "cancel"), 1)
    /\ UNCHANGED <<engineVars, rateVars, configVars, pureVars>>

\* `resend contacts import <audience> <csv-file>` up to the first
\* client.createContact; rows is the number of contacts parseCSV found
RunImport(key, fileExists, rows) ==
    /\ cmd.pc = "idle"
    /\ LET command == Started("import", key, "pretty", rows)
       IN  CASE ~truthy(key) -> Fail(command, "credential", "No API key configured")
             [] truthy(key) /\ ~fileExists ->
                  Fail(command, "validation", "CSV file not found")
             [] truthy(key) /\ fileExists /\ rows = 0 ->
                  Fail(command, "validation", "No valid contacts found in CSV file")
             [] truthy(key) /\ fileExists /\ rows > 0 ->
                  Call(command, EngineCall("createContact", 1, <<>>))
    /\ UNCHANGED <<engineVars, rateVars, configVars, pureVars>>

\* the summary after the last row (lines 85-94): everything goes to
\* standard output and the handler returns
ImportSummary(command, out) ==
    Exit(command,
         IF command.errorCount > 0 THEN "engine" ELSE "none",
         out \o <<"Import complete!", "Successfully imported">>
             \o (IF command.errorCount > 0 THEN <<"Failed", "Errors:">> ELSE <<>>),
         stderr, 0)

\* mutant: the first row that fails ends the loop
ImportRow_StopsOnError(ok) ==
    /\ cmd.pc = "calling"
    /\ cmd.name = "import"
    /\ LET command ==
             [cmd EXCEPT !.i = cmd.i + 1,
                         !.successCount = IF ok THEN @ + 1 ELSE @,
                         !.errorCount = IF ok THEN @ ELSE @ + 1]
           out == Append(stdout, IF ok THEN "row ok" ELSE "row failed")
       IN  IF command.i < command.rows /\ ok
           THEN /\ cmd' = Issue(command,
                               EngineCall("createContact", command.i + 1, <<>>))
                /\ stdout' = out
                /\ UNCHANGED <<stderr, exitCode>>
           ELSE ImportSummary(command, out)
    /\ UNCHANGED <<engineVars, rateVars, configVars, pureVars>>

\* one turn of the loop of lines 61-83: createContact returned (ok) or
\* threw; after the last row the summary is printed
ImportRow(ok) ==
    /\ cmd.pc = "calling"
    /\ cmd.name = "import"
    /\ LET command ==
             [cmd EXCEPT !.i = cmd.i + 1,
                         !.successCount = IF ok THEN @ + 1 ELSE @,
                         !.errorCount = IF ok THEN @ ELSE @ + 1]
           out == Append(stdout, IF ok THEN "row ok" ELSE "row failed")
       IN  IF command.i < command.rows
           THEN /\ cmd' = Issue(command,
                               EngineCall("createContact", command.i + 1, <<>>))
                /\ stdout' = out
                /\ UNCHANGED <<stderr, exitCode>>
           ELSE ImportSummary(command, out)
    /\ UNCHANGED <<engineVars, rateVars, configVars, pureVars>>

\* the handlers that delete right after the prompt, and their engine method
DirectDeletes == {"contacts delete", "audiences delete", "broadcasts delete"}
DeleteMethod(name) ==
    CASE name = "contacts delete" -> "deleteContact"
      [] name = "audiences delete" -> "deleteAudience"
      [] name = "broadcasts delete" -> "deleteBroadcast"

\* the answer of the user as the prompt of the handler understands it:
\* confirm() of broadcasts delete and broadcasts send accepts y only
Confirmed(name, answer) ==
    IF name \in {"broadcasts delete", "broadcasts send"}
    THEN toLowerCase(answer) = "y"
    ELSE promptConfirmation(answer)

\* mutant: the answer is read but the delete is made whatever it is
RunDelete_IgnoresAnswer(name, key, force, answer) ==
    /\ cmd.pc = "idle"
    /\ LET started == Started(name, key, "pretty", 0)
           command == Asked([started EXCEPT !.force = force], answer,
                            Confirmed(name, answer))
       IN  IF ~truthy(key)
           THEN Fail(started, "credential", "No API key configured")
           ELSE Call(command, EngineCall(DeleteMethod(name), 0, <<>>))
    /\ UNCHANGED <<engineVars, rateVars, configVars, pureVars>>

\* `resend contacts delete`, `resend audiences delete`, `resend broadcasts
\* delete` up to the call of the delete method
RunDelete(name, key, force, answer) ==
    /\ cmd.pc = "idle"
    /\ LET started == Started(name, key, "pretty", 0)
           command == Asked([started EXCEPT !.force = force], answer,
                            Confirmed(name, answer))
       IN  IF ~truthy(key)
           THEN Fail(started, "credential", "No API key configured")
           ELSE IF ~force /\ ~Confirmed(name, answer)
                THEN Exit(command, "none", <<"Deletion cancelled.">>, <<>>, 0)
                ELSE Call(command, EngineCall(DeleteMethod(name), 0, <<>>))
    /\ UNCHANGED <<engineVars, rateVars, configVars, pureVars>>

\* the handlers that look things up before they prompt: the engine methods
\* they call, the last one being the destructive one
LookupCommands == {"domains delete", "broadcasts send"}
Methods(name) ==
    CASE name = "domains delete" -> <<"getDomain", "deleteDomain">>
      [] name = "broadcasts send" ->
           <<"getBroadcast", "getAudience", "listContacts", "sendBroadcast">>

\* `resend domains delete`, `resend broadcasts send` up to the first lookup
RunLookup(name, key, force, output) ==
    /\ cmd.pc = "idle"
    /\ LET command == [Started(name, key, output, 0) EXCEPT !.force = force]
       IN  IF ~truthy(key)
           THEN Fail(Started(name, key, output, 0), "credential",
                     "No API key configured")
           ELSE Call(command, EngineCall(Methods(name)[1], 0, <<>>))
    /\ UNCHANGED <<engineVars, rateVars, configVars, pureVars>>

\* a lookup returned: the next lookup is made or, after the last one, the
\* user is asked unless --force was given, and the destructive call is made
LookupReturns(answer) ==
    /\ cmd.pc = "calling"
    /\ cmd.name \in LookupCommands
    /\ Len(cmd.calls) < Len(Methods(cmd.name))
    /\ LET next == EngineCall(Methods(cmd.name)[Len(cmd.calls) + 1], 0, <<>>)
           asked == Asked(cmd, answer, Confirmed(cmd.name, answer))
       IN  IF Len(cmd.calls) + 1 < Len(Methods(cmd.name))
           THEN Call(cmd, next)
           ELSE IF ~cmd.force /\ ~Confirmed(cmd.name, answer)
                THEN Exit(asked, "none",
                          IF cmd.name = "broadcasts send"
                          THEN <<"Broadcast Details:", "Cancelled.">>
                          ELSE <<"Deletion cancelled.">>,
                          <<>>, 0)
                ELSE Call(asked, next)
    /\ UNCHANGED <<engineVars, rateVars, configVars, pureVars>>

\* the delete or send method returned: success is printed
DestructiveReturns ==
    /\ cmd.pc = "calling"
    /\ \/ cmd.name \in DirectDeletes
       \/ /\ cmd.name \in LookupCommands
          /\ Len(cmd.calls) = Len(Methods(cmd.name))
    /\ Exit(cmd, "none",
            IF cmd.output = "json" THEN <<"data">> ELSE <<"successfully">>,
            <<>>, 0)
    /\ UNCHANGED <<engineVars, rateVars, configVars, pureVars>>

\* the handlers that resolve the credential, check their arguments, construct
\* the engine and call one method: the command and the method it calls
PlainHandlers ==
    {<<"emails send", "sendEmail">>, <<"emails list", "listEmails">>,
     <<"emails get", "getEmail">>, <<"emails update", "updateEmail">>,
     <<"domains add", "createDomain">>, <<"domains list", "listDomains">>,
     <<"domains get", "getDomain">>, <<"domains update", "updateDomain">>,
     <<"domains verify", "verifyDomain">>,
     <<"contacts list", "listContacts">>, <<"contacts create", "createContact">>,
     <<"contacts update", "updateContact">>,
     <<"audiences create", "createAudience">>,
     <<"audiences list", "listAudiences">>, <<"audiences get", "getAudience">>,
     <<"broadcasts get", "getBroadcast">>, <<"broadcasts list", "listBroadcasts">>,
     <<"broadcasts create", "createBroadcast">>,
     <<"broadcasts update", "updateBroadcast">>,
     <<"webhooks list", "listWebhooks">>, <<"webhooks get", "getWebhook">>,
     <<"webhooks create", "createWebhook">>,
     <<"webhooks update", "updateWebhook">>}

\* one of these handlers up to the call of its engine method; valid tells
\* whether the arguments pass the checks of the handler
RunPlain(name, method, key, valid, output) ==
    /\ cmd.pc = "idle"
    /\ LET command == Started(name, key, output, 0)
       IN  IF ~truthy(key)
           THEN Fail(command, "credential", "No API key configured")
           ELSE IF ~valid
                THEN Fail(command, "validation", "Invalid arguments")
                ELSE Call(command, EngineCall(method, 0, <<>>))
    /\ UNCHANGED <<engineVars, rateVars, configVars, pureVars>>

\* the method returned: the response is printed
PlainReturns ==
    /\ cmd.pc = "calling"
    /\ cmd.name \in {h[1] : h \in PlainHandlers}
    /\ Exit(cmd, "none",
            IF cmd.output = "json" THEN <<"data">> ELSE <<"successfully">>,
            <<>>, 0)
    /\ UNCHANGED <<engineVars, rateVars, configVars, pureVars>>

NextCommand ==
    \/ \E h \in PlainHandlers, key \in KeyValues, valid \in BOOLEAN,
          output \in OutputFormats : RunPlain(h[1], h[2], key, valid, output)
    \/ PlainReturns
    \/ \E name \in DirectDeletes, key \in KeyValues, force \in BOOLEAN,
          answer \in Answers : RunDelete(name, key, force, answer)
    \/ \E name \in LookupCommands, key \in KeyValues, force \in BOOLEAN,
          output \in OutputFormats : RunLookup(name, key, force, output)
    \/ \E answer \in Answers : LookupReturns(answer)
    \/ DestructiveReturns
    \/ \E key \in KeyValues, force \in BOOLEAN, answer \in Answers,
          output \in OutputFormats :
          RunCancel(key, force, answer, output)
    \/ \E canceled \in BOOLEAN : CancelReturns(canceled)
    \/ \E key \in KeyValues, file \in BatchFiles, output \in OutputFormats :
          RunSendBatch(key, file, output)
    \/ SendBatchReturns
    \/ \E error \in EngineErrors : EngineThrows(error)
    \/ \E key \in KeyValues, fileExists \in BOOLEAN, rows \in 0..MaxRows :
          RunImport(key, fileExists, rows)
    \/ \E ok \in BOOLEAN : ImportRow(ok)

CommandInit ==
    /\ CommandIdle
    /\ EngineIdle
    /\ RateIdle
    /\ ConfigIdle
    /\ PureIdle

SpecCommand == CommandInit /\ [][NextCommand]_vars

(***************************************************************************)
(* maskApiKey on its own, over every key of at most MaxKeyLen characters   *)
(***************************************************************************)

MaskInit ==
    /\ pureFn = "none"
    /\ pureArg \in UNION {[1..k -> {"a", "b"}] : k \in 0..MaxKeyLen}
    /\ pureResult = <<>>
    /\ EngineIdle
    /\ RateIdle
    /\ ConfigIdle
    /\ CommandIdle

ApplyMaskApiKey ==
    /\ pureFn = "none"
    /\ pureFn' = "maskApiKey"
    /\ pureResult' = maskApiKey(pureArg)
    /\ UNCHANGED <<pureArg, engineVars, rateVars, configVars, commandVars>>

NextMask == ApplyMaskApiKey

SpecMask == MaskInit /\ [][NextMask]_vars

(***************************************************************************)
(* validateEmails on its own, over every array of at most MaxEmails sample *)
(* addresses                                                               *)
(***************************************************************************)
\* addresses with and without surrounding blanks, valid and invalid

ValidateInit ==
    /\ pureFn = "none"
    /\ LET EmailSamples ==
           {<<"a", "@", "b">>,
            <<" ", "a", "@", "b", ".", "c", " ">>,
            <<"1", "+", "a", "@", "b", "-", "c">>,
            <<"a">>,
            <<"@", "b">>,
            <<"a", " ", "@", "b">>,
            <<"a", "@", ".", "c">>,
            <<" ">>}
       IN  pureArg \in UNION {[1..k -> EmailSamples] : k \in 0..MaxEmails}
    /\ pureResult = <<>>
    /\ EngineIdle
    /\ RateIdle
    /\ ConfigIdle
    /\ CommandIdle

ApplyValidateEmails ==
    /\ pureFn = "none"
    /\ pureFn' = "validateEmails"
    /\ pureResult' = validateEmails(pureArg)
    /\ UNCHANGED <<pureArg, engineVars, rateVars, configVars, commandVars>>

NextValidate == ApplyValidateEmails

SpecValidate == ValidateInit /\ [][NextValidate]_vars

(***************************************************************************)
(* Properties                                                              *)
(***************************************************************************)
\* the delay the specification gives for attempt index n, spelled out
SpecDelay(n) == IF n = 0 THEN 1000 ELSE IF n = 1 THEN 2000 ELSE 4000

Last(seq) == seq[Len(seq)]
IsServerError(status) == status >= 500 /\ status <= 599
IsClientError(status) == status >= 400 /\ status <= 499
IsSuccess(status) == status \in 200..299
EveryAttemptAnswered == Len(received) = fetches
ThrownAPIError == outcome.kind = "thrown" /\ outcome.error.name = "ResendAPIError"

\* the error lines 128-141 build from the most recent response
ErrorOfLastResponse ==
    ResendAPIError(errorMessageOf(errorDataOf(lastBody), Last(received)),
                   Last(received), BodyDetails(errorDataOf(lastBody)))

\* the error that the most recent HTTP attempt of the call produced
ErrorOfLastAttempt ==
    CASE lastEvent = "network" -> NetworkError
      [] lastEvent = "timeout" ->
            ResendAPIError(TimeoutMessage(timeout), 0, TimeoutDetails(timeout))
      [] lastEvent = "response" /\ IsSuccess(Last(received)) -> JsonSyntaxError
      [] OTHER -> ErrorOfLastResponse

C3_NetworkFailureRetried ==
    (pc = "done" /\ lastEvent = "network")
    => /\ fetches = maxRetries
       /\ ThrownAPIError
       /\ outcome.error.statusCode = Undefined

\* C4 (as claimed): a timed-out attempt ends the call only when the
\* attempt budget is exhausted; with budget left the engine backs off and
\* makes another attempt.
C4_TimeoutRetried ==
    (pc = "done" /\ lastEvent = "timeout") => fetches = maxRetries

\* C5 (as claimed): the error thrown for a timed-out attempt is a
\* ResendAPIError with no status code whose details hold the configured
\* timeout.
C5_TimeoutErrorHasNoStatus ==
    (outcome.kind = "thrown" /\ lastEvent = "timeout")
    => /\ outcome.error.name = "ResendAPIError"
       /\ outcome.error.details = TimeoutDetails(timeout)
       /\ outcome.error.statusCode = Undefined

\* C6 (as claimed): a finished call has returned a result or has thrown a
\* ResendAPIError; no failure surfaces as an error of another type.
C6_ReturnsOrThrowsAPIError ==
    pc = "done" => (outcome.kind = "returned" \/ ThrownAPIError)

C8_BackoffDelays ==
    \A i \in DOMAIN sleeps :
        /\ sleeps[i] = SpecDelay(i - 1)
        /\ sleeps[i] <= 4000

C8_Witness ==
    /\ sleeps = <<1000, 2000, 4000, 4000>>
    /\ pc = "sleeping"

\* C9: a call that throws with its attempt budget used up throws the
\* error of its most recent attempt, and the generic 'Request failed after
\* maximum retries' error is thrown only by a call that made no attempt.
C9_LastRealErrorThrown ==
    /\ ( /\ pc = "done" /\ outcome.kind = "thrown"
         /\ fetches >= 1 /\ fetches = maxRetries )
       => outcome.error = ErrorOfLastAttempt
    /\ ( /\ pc = "done" /\ outcome.kind = "thrown"
         /\ outcome.error.message = GenericMessage )
       => fetches = 0

C9_Witness ==
    /\ pc = "done"
    /\ maxRetries = 2
    /\ received = <<500, 503>>
    /\ sleeps = <<1000>>
    /\ outcome.kind = "thrown"
    /\ outcome.error = ErrorOfLastResponse
    /\ outcome.error.statusCode = 503

\* C10 (as claimed): a thrown ResendAPIError whose statusCode is set
\* carries the status of a response received during the call, and the
\* error of an attempt that got no response carries no status value.
C10_StatusIsNeverFabricated ==
    ThrownAPIError
    => /\ outcome.error.statusCode # Undefined
          => \E i \in DOMAIN received : received[i] = outcome.error.statusCode
       /\ lastEvent \in {"timeout", "network"}
          => outcome.error.statusCode = Undefined

\* a header text that is a decimal integer, and its value
IsDecimal(text) == text # <<>> /\ \A i \in DOMAIN text : text[i] \in Digits
RECURSIVE DecimalValue(_)
DecimalValue(text) ==
    IF text = <<>> THEN 0
    ELSE 10 * DecimalValue(SubSeq(text, 1, Len(text) - 1))
         + DigitValue(text[Len(text)])
IntegerHeader(header) == header.present /\ IsDecimal(header.text)

\* C11: when any one of the three rate-limit headers is absent the result
\* has no rateLimit at all, and when all three are present with integer
\* values the snapshot holds exactly these three integers (0 included).
C11_SnapshotAllOrNothing ==
    rlParsed
    => /\ ( \/ ~rlHeaders.limit.present
            \/ ~rlHeaders.remaining.present
            \/ ~rlHeaders.reset.present )
          => rlSnapshot = NoRateLimit
       /\ ( /\ IntegerHeader(rlHeaders.limit)
            /\ IntegerHeader(rlHeaders.remaining)
            /\ IntegerHeader(rlHeaders.reset) )
          => rlSnapshot = RateLimitInfo(DecimalValue(rlHeaders.limit.text),
                                        DecimalValue(rlHeaders.remaining.text),
                                        DecimalValue(rlHeaders.reset.text))

C11_Witness ==
    /\ rlParsed
    /\ rlHeaders = RateLimitHeaders(Header(<<"1", "0">>), Header(<<"0">>),
                                    Header(<<"1", "1">>))
    /\ rlSnapshot = RateLimitInfo(10, 0, 11)

\* C12 (as claimed): a snapshot is attached only when all three headers
\* are present and each is an integer; no field of an attached snapshot is
\* a non-integer.
C12_SnapshotOnlyFromIntegers ==
    (rlParsed /\ rlSnapshot.present)
    => /\ IntegerHeader(rlHeaders.limit)
       /\ IntegerHeader(rlHeaders.remaining)
       /\ IntegerHeader(rlHeaders.reset)
       /\ rlSnapshot.limit # NaN
       /\ rlSnapshot.remaining # NaN
       /\ rlSnapshot.reset # NaN

\* C13 (as claimed): after a non-2xx response the failure is never masked.
\* The retry decision depends on the status and the budget only; the error
\* built (thrown, or kept in lastError for the retry) is a ResendAPIError
\* with the response's status; for an unparseable body its details are {}
\* and its message is 'API request failed with status <status>'; for a
\* body that is valid JSON its details are that body and its message is
\* the body's `message` whenever that is a string.
C13_ErrorBodyNeverMasksFailure ==
    ( /\ lastEvent = "response"
      /\ received # <<>>
      /\ ~IsSuccess(Last(received))
      /\ pc \in {"sleeping", "done"} )
    => LET status == Last(received)
           error == IF pc = "done" THEN outcome.error ELSE lastError
       IN  /\ pc = "sleeping" <=> (status >= 500 /\ attempt < maxRetries - 1)
           /\ pc = "done" => outcome.kind = "thrown"
           /\ error.name = "ResendAPIError"
           /\ error.statusCode = status
           /\ ~lastBody.json
              => /\ error.details = BodyDetails(EmptyObject)
                 /\ error.message = StatusMessage(status)
           /\ lastBody.json
              => /\ error.details = BodyDetails(lastBody)
                 /\ lastBody.hasMessage
                    => error.message = BodyMessage(lastBody.msg)

\* the order the specification gives: attempt, backoff, attempt, backoff ...
\* each attempt being a fetch start and its end, each backoff a sleep
\* start and its end
Alternation(i) ==
    CASE i % 4 = 1 -> "fetch"
      [] i % 4 = 2 -> "end"
      [] i % 4 = 3 -> "sleep"
      [] OTHER -> "wake"
Count(event) == Cardinality({i \in DOMAIN log : log[i] = event})

\* C14: within one call attempts and backoff sleeps strictly alternate,
\* starting with attempt 0: never two attempts in flight, an attempt
\* starts only after the previous one ended and its sleep elapsed, and no
\* sleep follows the attempt whose outcome is returned or thrown.
C14_AttemptsAndSleepsAlternate ==
    /\ \A i \in DOMAIN log : log[i] = Alternation(i)
    /\ Count("fetch") - Count("end") \in {0, 1}
    /\ Count("fetch") = fetches
    /\ Count("sleep") = Len(sleeps)
    /\ (pc = "done" /\ log # <<>>) => Last(log) = "end"
    /\ pc = "attempting" <=> Count("fetch") = Count("end") + 1

C14_Witness ==
    /\ pc = "done"
    /\ received = <<500, 503, 200>>
    /\ log = <<"fetch", "end", "sleep", "wake", "fetch", "end", "sleep",
               "wake", "fetch", "end">>

C16_ConfigurationIsImmutable ==
    /\ [][config' = config]_vars
    /\ [](/\ apiKey = options.apiKey
          /\ baseUrl = OrDefaultText(options.baseUrl, DefaultBaseUrl)
          /\ timeout = OrDefault(options.timeout, DefaultTimeout)
          /\ maxRetries = OrDefault(options.maxRetries, DefaultMaxRetries))
    /\ [][calls' = calls + 1
            => /\ attempt' = 0
               /\ lastError' = Null
               /\ sleeps' = <<>>
               /\ received' = <<>>
               /\ fetches' = IF maxRetries >= 1 THEN 1 ELSE 0]_vars

C16_Witness ==
    /\ calls = 2
    /\ pc = "done"
    /\ maxRetries = 3
    /\ options.maxRetries = Given(3)
    /\ attempt = 2
    /\ received = <<500, 500, 500>>
    /\ baseUrl = "http://localhost:3000"

\* C17: a rate-limit snapshot accompanies successful results only: an
\* outcome that carries one is a returned 2xx result, and a thrown error
\* carries neither snapshot nor data, even when the failing response (a 429,
\* say) had all three rate-limit headers.
C17_SnapshotOnlyOnSuccess ==
    /\ outcome.rateLimit.present
         => /\ outcome.kind = "returned"
            /\ lastEvent = "response"
            /\ IsSuccess(Last(received))
    /\ outcome.kind = "thrown"
         => /\ outcome.rateLimit = NoRateLimit
            /\ outcome.data = NoBody

C17_Witness ==
    /\ outcome.kind = "thrown"
    /\ lastEvent = "response"
    /\ Last(received) = 429
    /\ parseRateLimitHeaders(lastHeaders).present
    /\ outcome.error.statusCode = 429

\* the key stored in the configuration file of the CLI (~/.resend/config.json)
StoredKey == loadConfigSync(fileSystem).apiKey

\* the first two tiers: a flag that is given wins, otherwise an environment
\* variable that is set wins
FlagThenEnvironment ==
    invocation.command = "api"
      => /\ truthy(invocation.flag) => invocation.resolved = invocation.flag
         /\ ~truthy(invocation.flag) /\ truthy(invocation.env)
              => invocation.resolved = invocation.env

\* C18: getApiKey returns the --api-key value whenever it is given, otherwise
\* RESEND_API_KEY whenever it is set, otherwise the apiKey stored in the
\* configuration file, and undefined only when none of the three supplies
\* a key.
C18_CredentialPriority ==
    invocation.command = "api"
      => /\ FlagThenEnvironment
         /\ ~truthy(invocation.flag) /\ ~truthy(invocation.env) /\ truthy(StoredKey)
              => invocation.resolved = StoredKey
         /\ ~invocation.resolved.present
              => /\ ~truthy(invocation.flag)
                 /\ ~truthy(invocation.env)
                 /\ ~truthy(StoredKey)

\* C19: once config init or config set apiKey has saved key K, a command run
\* without flag and without environment variable resolves K: the file that
\* commands read is the file that the config commands write.
C19_ConfigRoundTrip ==
    invocation.command = "api"
      /\ ~invocation.flag.present /\ ~invocation.env.present
      /\ savedKey.present
      => invocation.resolved = savedKey

\* C20: every command invocation that fails (missing credential, local
\* validation failure, an engine call that throws, an API result reporting
\* that the operation did not succeed) has written an error message to
\* standard error and has ended with a non-zero exit code.
C20_FailureIsReported ==
    cmd.pc = "exited" /\ cmd.failure # "none"
      => /\ stderr # <<>>
         /\ exitCode # 0

\* the key names under which the documentation has users store the API key
ApiKeyNames == {"apiKey", "api_key"}

\* C21: `resend config get`, with or without a key argument, never prints
\* a stored API key in full: whatever it prints for apiKey or api_key
\* differs from the stored value.
C21_StoredKeyNeverPrinted ==
    invocation.command = "config get"
      => \A name \in ApiKeyNames :
            printed[name].present /\ printed[name].text # <<>>
              => printed[name] # loadConfigSync(fileSystem)[name]

ValidPositions == {i \in 1..Len(pureArg) : validateEmail(pureArg[i])}
InvalidPositions == (1..Len(pureArg)) \ ValidPositions

\* position in the input of the k-th element of a set of positions
RECURSIVE NthOf(_, _)
NthOf(positions, k) ==
    LET least == CHOOSE i \in positions : \A j \in positions : i <= j
    IN  IF k = 1 THEN least ELSE NthOf(positions \ {least}, k - 1)

\* C23: validateEmails partitions its input: the accepted elements, trimmed,
\* make up `valid` and the others, as given, make up `invalid`, both in
\* input order; the two lengths add up to the input's, and isValid says
\* that `invalid` is empty.
C23_ValidateEmailsPartitions ==
    pureFn = "validateEmails"
      => /\ Len(pureResult.valid) = Cardinality(ValidPositions)
         /\ Len(pureResult.invalid) = Cardinality(InvalidPositions)
         /\ \A k \in 1..Len(pureResult.valid) :
               pureResult.valid[k] = trim(pureArg[NthOf(ValidPositions, k)])
         /\ \A k \in 1..Len(pureResult.invalid) :
               pureResult.invalid[k] = pureArg[NthOf(InvalidPositions, k)]
         /\ Len(pureResult.valid) + Len(pureResult.invalid) = Len(pureArg)
         /\ pureResult.isValid <=> pureResult.invalid = <<>>

C23_Witness ==
    /\ pureFn = "validateEmails"
    /\ pureArg = << <<"a">>, <<" ", "a", "@", "b", ".", "c", " ">>, <<"a", "@", "b">> >>
    /\ pureResult.valid = << <<"a", "@", "b", ".", "c">>, <<"a", "@", "b">> >>
    /\ pureResult.invalid = << <<"a">> >>
    /\ ~pureResult.isValid

\* the empty array is valid
C23_WitnessEmpty ==
    /\ pureFn = "validateEmails"
    /\ pureArg = <<>>
    /\ pureResult = [valid |-> <<>>, invalid |-> <<>>, isValid |-> TRUE]

\* the engine methods that delete, cancel or send, and the handlers that
\* ask before calling them
DestructiveMethods ==
    {"deleteContact", "deleteAudience", "deleteBroadcast", "deleteDomain",
     "cancelEmail", "sendBroadcast"}
ConfirmingCommands ==
    {"contacts delete", "audiences delete", "domains delete",
     "broadcasts delete", "cancel", "broadcasts send"}
DestructiveSent ==
    \E k \in 1..Len(cmd.calls) : cmd.calls[k].method \in DestructiveMethods

\* C24: in a command with a confirmation prompt the destructive request is
\* made only after --force was given or the user answered yes; when the
\* user declines, no destructive request is made and the exit code is 0.
C24_ConfirmedBeforeDestruction ==
    cmd.name \in ConfirmingCommands
      => /\ DestructiveSent
              => \/ cmd.force
                 \/ cmd.prompted /\ cmd.answer \in {"y", "Y", "yes", "YES"}
         /\ cmd.prompted /\ cmd.answer \in {"n", ""}
              => /\ ~DestructiveSent
                 /\ cmd.pc = "exited"
                 /\ exitCode = 0
                 /\ cmd.failure = "none"

C24_Witness ==
    /\ cmd.name = "broadcasts send"
    /\ cmd.pc = "exited"
    /\ cmd.prompted
    /\ cmd.answer = "n"
    /\ Len(cmd.calls) = 3
    /\ ~DestructiveSent
    /\ exitCode = 0

C29_OneMethodPerInvocation ==
    /\ cmd.clients <= 1
    /\ Len(cmd.calls) <= 1

\* the handlers that call more than one engine method
MultiCallCommands == {"import", "domains delete", "broadcasts send"}

\* TRUE iff the calls made are a beginning of the sequence methods
IsPrefixOf(made, methods) ==
    /\ Len(made) <= Len(methods)
    /\ \A k \in 1..Len(made) : made[k].method = methods[k]

\* C29 (amended): an invocation constructs at most one engine instance, and
\* all its engine calls are made on it. contacts import calls createContact
\* once per row; domains delete calls getDomain and then deleteDomain;
\* broadcasts send calls getBroadcast, getAudience, listContacts and then
\* sendBroadcast. Every other handler calls at most one engine method, and
\* exactly one when it ends without a failure and without a declined prompt.
C29_OneEnginePerInvocation ==
    /\ cmd.clients <= 1
    /\ cmd.calls # <<>> => cmd.clients = 1
    /\ cmd.name = "import"
         => /\ Len(cmd.calls) <= cmd.rows
            /\ \A k \in 1..Len(cmd.calls) : cmd.calls[k].method = "createContact"
    /\ cmd.name \in LookupCommands => IsPrefixOf(cmd.calls, Methods(cmd.name))
    /\ cmd.name \notin MultiCallCommands
         => /\ Len(cmd.calls) <= 1
            /\ cmd.pc = "exited" /\ cmd.failure = "none"
                 /\ ~(cmd.prompted /\ ~cmd.confirmed)
                 => Len(cmd.calls) = 1

C29_Witness ==
    /\ cmd.name = "broadcasts send"
    /\ cmd.pc = "exited"
    /\ cmd.failure = "none"
    /\ cmd.clients = 1
    /\ Len(cmd.calls) = 4
    /\ cmd.calls[4].method = "sendBroadcast"

\* TRUE iff every address of the field is a valid address
AllValid(value) ==
    \A k \in 1..Len(asArray(value)) : validateEmail(asArray(value)[k])

\* TRUE iff the email passes the checks of send-batch: a valid sender,
\* recipients that are all valid, a subject, a text or html body, and cc,
\* bcc and reply_to addresses that are all valid when they are given
PassesValidation(email) ==
    /\ email.from.present
    /\ validateEmail(email.from.text)
    /\ email.to.kind # "absent"
    /\ email.to # One(<<>>)
    /\ AllValid(email.to)
    /\ email.subject.present /\ email.subject.text # <<>>
    /\ \/ email.text.present /\ email.text.text # <<>>
       \/ email.html.present /\ email.html.text # <<>>
    /\ email.cc = One(<<>>) \/ AllValid(email.cc)
    /\ email.bcc = One(<<>>) \/ AllValid(email.bcc)
    /\ email.reply_to = One(<<>>) \/ AllValid(email.reply_to)

\* C30: send-batch validates every email of the file before it touches the
\* network: when an email of the file fails validation no engine is
\* constructed, no engine method is called and the process exits with
\* code 1; when all pass, exactly one sendBatchEmails call is made and it
\* carries all the emails of the file.
C30_BatchValidatedBeforeSending ==
    cmd.name = "send-batch" /\ cmd.input # <<>>
      => IF \E k \in 1..Len(cmd.input) : ~PassesValidation(cmd.input[k])
         THEN /\ cmd.calls = <<>>
              /\ cmd.clients = 0
              /\ cmd.pc = "exited"
              /\ exitCode = 1
         ELSE cmd.calls = <<EngineCall("sendBatchEmails", 0, cmd.input)>>

C30_Witness ==
    /\ cmd.name = "send-batch"
    /\ Len(cmd.input) = 2
    /\ PassesValidation(cmd.input[1])
    /\ ~PassesValidation(cmd.input[2])
    /\ cmd.pc = "exited"
    /\ cmd.calls = <<>>
    /\ exitCode = 1

C30_WitnessSent ==
    /\ cmd.name = "send-batch"
    /\ Len(cmd.input) = 2
    /\ cmd.pc = "exited"
    /\ cmd.failure = "none"
    /\ Len(cmd.calls) = 1
    /\ cmd.calls[1].body = cmd.input

\* C27: every call of request() issues at least one HTTP attempt before it
\* returns or throws, whatever maxRetries the constructor was given, so the
\* throw after the retry loop (line 173) is never the one that ends a call.
C27_AtLeastOneAttempt ==
    pc = "done"
      => /\ fetches >= 1
         /\ outcome # Thrown(ResendAPIError(GenericMessage, Undefined, NoDetails))

\* C28: the engine uses the configuration it was given: in every call the
\* base URL, retry budget and timeout it works with are the options that
\* were passed to the constructor, and a default is used only for an option
\* that was omitted.
C28_OptionsAreEffective ==
    calls >= 1
      => /\ baseUrl = IF options.baseUrl.given THEN options.baseUrl.value
                      ELSE DefaultBaseUrl
         /\ maxRetries = IF options.maxRetries.given THEN options.maxRetries.value
                         ELSE DefaultMaxRetries
         /\ timeout = IF options.timeout.given THEN options.timeout.value
                      ELSE DefaultTimeout

\* TRUE iff the method of the current call is one of the POST methods that
\* are not idempotent
NonIdempotent ==
    operation.method \in {"sendEmail", "sendBatchEmails", "sendBroadcast"}

\* C26: the retry policy does not depend on the verb. Every attempt of a
\* call hands fetch the same URL, verb and body, for POST as for GET; an
\* attempt that received a 5xx while budget remained is followed, after the
\* backoff, by one more identical attempt; so a call whose attempts all
\* received 5xx has sent its request maxRetries times when it throws.
C26_RetriesWhateverTheVerb ==
    /\ Len(sent) = fetches
    /\ \A k \in 1..Len(sent) :
         sent[k] = [url |-> <<baseUrl, operation.path>>,
                    verb |-> operation.verb, body |-> operation.body]
    /\ \A k \in 1..Len(received) :
         received[k] >= 500 /\ k < maxRetries /\ pc # "sleeping"
           => Len(sent) > k
    /\ ( /\ pc = "done"
         /\ Len(received) = fetches
         /\ fetches >= 1
         /\ \A k \in 1..Len(received) : received[k] >= 500 )
         => /\ Len(sent) = maxRetries
            /\ outcome.kind = "thrown"

C26_Witness ==
    /\ NonIdempotent
    /\ operation.body # ""
    /\ pc = "done"
    /\ outcome.kind = "thrown"
    /\ maxRetries = 3
    /\ received = <<500, 503, 500>>
    /\ Len(sent) = 3
    /\ sent[1].verb = "POST"
    /\ sent[3] = sent[1]

=============================================================================
